---- MODULE Spec2Model ----
(***************************************************************************)
(* A model of the vector-rs crate: the value types Vector2<T>, Vector3<T>  *)
(* and Vector4<T> (src/src/vector2.rs, vector3.rs, vector4.rs), their      *)
(* conversions, their operators, and the f32 methods of Vector2.           *)
(*                                                                         *)
(* The scalar type T is a type parameter of the crate.  Two instantiations *)
(* are modelled:                                                           *)
(*   "int"  a two's-complement integer of Bits bits whose + - * wrap       *)
(*          modulo 2^Bits (std::num::Wrapping<iN>, or iN built without     *)
(*          overflow checks);                                              *)
(*   "f32"  a binary floating-point format with Prec significand bits,     *)
(*          exponents -EminNeg..Emax, gradual underflow, round to nearest  *)
(*          (ties to even), overflow to infinity, and NaN: IEEE-754        *)
(*          arithmetic at a reduced size.  The sign of zero is not kept.   *)
(* A scalar is an integer in both: the integer itself for "int"; for       *)
(* "f32" the value counted in units of the smallest subnormal (1/QInv),    *)
(* with the codes Inf, NInf and NaN beyond the largest finite value.       *)
(***************************************************************************)
EXTENDS Integers, Sequences, FiniteSets, TLC

VARIABLES
    ty,     \* the instantiation of T: "int" or "f32"
    op,     \* the operation applied last ("new": a freshly constructed vector)
    self,   \* the receiver: the vector the next operation is applied to
    orig,   \* the vector as constructed (the copy kept by the caller)
    rhs,    \* the vector operand of the last binary operation
    k,      \* the scalar operand of the last operation (scale, limit or angle)
    out,    \* the vector a non-mutating operation returned
    num,    \* the scalar a non-mutating operation returned
    path    \* the conversions applied to orig so far, oldest first

vars == <<ty, op, self, orig, rhs, k, out, num, path>>

---------------------------------------------------------------------------
(* Bounds of the model *)

Bits == 8       \* width of the "int" instantiation
Prec == 5       \* significand bits of the "f32" instantiation (f32 has 24)
Emax == 4       \* largest exponent of the "f32" instantiation (f32 has 127)
EminNeg == 3    \* minus the smallest normal exponent (f32 has 126)
MaxPath == 3    \* longest chain of conversions explored

---------------------------------------------------------------------------
(* The "int" instantiation: wrapping two's-complement arithmetic *)

Modulus == 2 ^ Bits
MinT == -(2 ^ (Bits - 1))
MaxT == (2 ^ (Bits - 1)) - 1

Wrap(n) == ((n - MinT) % Modulus) + MinT

---------------------------------------------------------------------------
(* The "f32" instantiation *)

QInv == 2 ^ (Prec - 1 + EminNeg)            \* 1.0 in units of the smallest subnormal
MaxK == ((2 ^ Prec) - 1) * (2 ^ (Emax + EminNeg))   \* f32::MAX
Inf == MaxK + 1
NInf == -Inf
NaN == MaxK + 2

IsFinite(a) == a # NaN /\ a # Inf /\ a # NInf

Abs(n) == IF n < 0 THEN -n ELSE n

Sgn(n) == IF n < 0 THEN -1 ELSE 1

\* a / b rounded to the nearest integer, ties to the even one (a >= 0, b > 0)
RNE(a, b) ==
    LET f == a \div b
        r == a % b
    IN  IF 2 * r < b THEN f
        ELSE IF 2 * r > b THEN f + 1
        ELSE IF f % 2 = 0 THEN f ELSE f + 1

\* the spacing of the representable values around c (c >= 0), in units
RECURSIVE UlpOf(_)
UlpOf(c) == IF c < 2 ^ Prec THEN 1 ELSE 2 * UlpOf(c \div 2)

\* the representable value nearest to n / d units (d > 0)
RoundQ(n, d) ==
    LET a == Abs(n)
        u == UlpOf(a \div d)
        m == RNE(a, d * u) * u
    IN  IF m > MaxK THEN Sgn(n) * Inf ELSE Sgn(n) * m

\* the f32 nearest to the rational n / d
FromRat(n, d) == RoundQ(n * QInv, d)

RECURSIVE ISqrt(_)
ISqrt(n) ==
    IF n < 2 THEN n
    ELSE LET r == 2 * ISqrt(n \div 4)
         IN  IF (r + 1) * (r + 1) <= n THEN r + 1 ELSE r

FNeg(a) == IF a = NaN THEN NaN ELSE -a

FAdd(a, b) ==
    IF a = NaN \/ b = NaN THEN NaN
    ELSE IF ~IsFinite(a) THEN (IF b = -a THEN NaN ELSE a)
    ELSE IF ~IsFinite(b) THEN b
    ELSE RoundQ(a + b, 1)

FSub(a, b) == FAdd(a, FNeg(b))

FMul(a, b) ==
    IF a = NaN \/ b = NaN THEN NaN
    ELSE IF ~IsFinite(a) \/ ~IsFinite(b)
         THEN (IF a = 0 \/ b = 0 THEN NaN ELSE Sgn(a) * Sgn(b) * Inf)
    ELSE RoundQ(a * b, QInv)

\* f32::recip: 1.0 / a
FRecip(a) ==
    IF a = NaN THEN NaN
    ELSE IF ~IsFinite(a) THEN 0
    ELSE IF a = 0 THEN Inf
    ELSE Sgn(a) * RoundQ(QInv * QInv, Abs(a))

\* f32::sqrt, correctly rounded
FSqrt(a) ==
    IF a = NaN \/ a < 0 THEN NaN
    ELSE IF a = Inf THEN Inf
    ELSE LET n == a * QInv
             s == ISqrt(n)
             u == UlpOf(s)
             q == s \div u
             h == ((2 * q) + 1) * u
             up == IF h * h < 4 * n THEN TRUE
                   ELSE IF h * h > 4 * n THEN FALSE
                   ELSE q % 2 = 1
         IN  IF up THEN (q + 1) * u ELSE q * u

\* f32::powi(2): one multiplication
FPowi2(a) == FMul(a, a)

\* the comparison a > b of f32
FGt(a, b) == a # NaN /\ b # NaN /\ a > b

---------------------------------------------------------------------------
(* The operations the trait bounds on T provide, for the instantiation ty *)

\* T::default()
Default == 0

\* T: Add<Output = T>
T_add(a, b) == IF ty = "f32" THEN FAdd(a, b) ELSE Wrap(a + b)

\* T: Sub<Output = T>
T_sub(a, b) == IF ty = "f32" THEN FSub(a, b) ELSE Wrap(a - b)

\* T: Mul<Output = T>
T_mul(a, b) == IF ty = "f32" THEN FMul(a, b) ELSE Wrap(a * b)

\* T: AddAssign, the value a holds after a += b
T_add_assign(a, b) == IF ty = "f32" THEN FAdd(a, b) ELSE Wrap(a + b)

\* T: SubAssign, the value a holds after a -= b
T_sub_assign(a, b) == IF ty = "f32" THEN FSub(a, b) ELSE Wrap(a - b)

\* T: MulAssign, the value a holds after a *= b
T_mul_assign(a, b) == IF ty = "f32" THEN FMul(a, b) ELSE Wrap(a * b)

---------------------------------------------------------------------------
(* src/src/vector2.rs *)

Vector2_new(x, y) == [x |-> x, y |-> y]

Vector2_from_array(v) == Vector2_new(v[1], v[2])

Vector2_from_Vector3(v) == Vector2_new(v.x, v.y)

\* a variant of From<Vector4<T>> that reads the wrong field
Vector2_from_Vector4_wrong_field(v) == Vector2_new(v.x, v.z)

Vector2_from_Vector4(v) == Vector2_new(v.x, v.y)

Vector2_add(v, w) == [x |-> T_add(v.x, w.x), y |-> T_add(v.y, w.y)]

Vector2_add_assign(v, w) ==
    LET s1 == [v EXCEPT !.x = T_add_assign(v.x, w.x)]
    IN  [s1 EXCEPT !.y = T_add_assign(s1.y, w.y)]

\* a variant of sub whose y component adds
Vector2_sub_adds_y(v, w) == [x |-> T_sub(v.x, w.x), y |-> T_add(v.y, w.y)]

Vector2_sub(v, w) == [x |-> T_sub(v.x, w.x), y |-> T_sub(v.y, w.y)]

Vector2_sub_assign(v, w) ==
    LET s1 == [v EXCEPT !.x = T_sub_assign(v.x, w.x)]
    IN  [s1 EXCEPT !.y = T_sub_assign(s1.y, w.y)]

Vector2_mul(v, s) == [x |-> T_mul(v.x, s), y |-> T_mul(v.y, s)]

Vector2_mul_assign(v, s) ==
    LET s1 == [v EXCEPT !.x = T_mul_assign(v.x, s)]
    IN  [s1 EXCEPT !.y = T_mul_assign(s1.y, s)]

(* impl Vector2<f32> *)

Vector2_magnitude(v) == FSqrt(FAdd(FPowi2(v.x), FPowi2(v.y)))

\* a variant of clamp_mag whose second assignment leaves out the limit
Vector2_clamp_mag_y_unit(v, limit) ==
    LET mag == Vector2_magnitude(v)
    IN  IF FGt(mag, limit)
        THEN LET inv_mag == FRecip(mag)
                 s1 == [v EXCEPT !.x = FMul(v.x, FMul(inv_mag, limit))]
             IN  [s1 EXCEPT !.y = FMul(s1.y, inv_mag)]
        ELSE v

\* the receiver after clamp_mag(limit)
Vector2_clamp_mag(v, limit) ==
    LET mag == Vector2_magnitude(v)
    IN  IF FGt(mag, limit)
        THEN LET inv_mag == FRecip(mag)
                 s1 == [v EXCEPT !.x = FMul(v.x, FMul(inv_mag, limit))]
             IN  [s1 EXCEPT !.y = FMul(s1.y, FMul(inv_mag, limit))]
        ELSE v

\* f32::sin and f32::cos at the angles h/2 radians, h = 1..6, in millionths
SinMicro == <<479426, 841471, 997495, 909297, 598472, 141120>>
CosMicro == <<877583, 540302, 70737, -416147, -801144, -989992>>

\* the h with angle = h/2, for the angles the tables cover
HalfTurns(angle) ==
    CHOOSE h \in -Len(SinMicro)..Len(SinMicro) : FromRat(h, 2) = angle

\* f32::sin: the f32 nearest to the sine (NaN for an infinite or NaN angle)
Sin(angle) ==
    IF ~IsFinite(angle) THEN NaN
    ELSE LET h == HalfTurns(angle)
         IN  IF h = 0 THEN 0
             ELSE Sgn(h) * FromRat(SinMicro[Abs(h)], 1000000)

\* f32::cos
Cos(angle) ==
    IF ~IsFinite(angle) THEN NaN
    ELSE LET h == HalfTurns(angle)
         IN  IF h = 0 THEN FromRat(1, 1)
             ELSE FromRat(CosMicro[Abs(h)], 1000000)

\* the receiver after set_rotation(angle)
Vector2_set_rotation(v, angle) ==
    LET sin == Sin(angle)
        cos == Cos(angle)
        s1 == [v EXCEPT !.x = FSub(FMul(v.x, cos), FMul(v.y, sin))]
    IN  [s1 EXCEPT !.y = FAdd(FMul(s1.x, sin), FMul(s1.y, cos))]

---------------------------------------------------------------------------
(* src/src/vector3.rs *)

Vector3_new(x, y, z) == [x |-> x, y |-> y, z |-> z]

Vector3_from_array(v) == Vector3_new(v[1], v[2], v[3])

Vector3_from_Vector2(v) == [x |-> v.x, y |-> v.y, z |-> Default]

\* a variant of From<Vector4<T>> that reads the wrong field
Vector3_from_Vector4_wrong_field(v) == [x |-> v.x, y |-> v.y, z |-> v.w]

Vector3_from_Vector4(v) == [x |-> v.x, y |-> v.y, z |-> v.z]

Vector3_dot(v, w) ==
    T_add(T_add(T_mul(v.x, w.x), T_mul(v.y, w.y)), T_mul(v.z, w.z))

\* a variant of cross whose y component has its terms exchanged
Vector3_cross_y_swapped(v, w) ==
    [x |-> T_sub(T_mul(v.y, w.z), T_mul(v.z, w.y)),
     y |-> T_sub(T_mul(v.x, w.z), T_mul(v.z, w.x)),
     z |-> T_sub(T_mul(v.x, w.y), T_mul(v.y, w.x))]

Vector3_cross(v, w) ==
    [x |-> T_sub(T_mul(v.y, w.z), T_mul(v.z, w.y)),
     y |-> T_sub(T_mul(v.z, w.x), T_mul(v.x, w.z)),
     z |-> T_sub(T_mul(v.x, w.y), T_mul(v.y, w.x))]

Vector3_add(v, w) ==
    [x |-> T_add(v.x, w.x), y |-> T_add(v.y, w.y), z |-> T_add(v.z, w.z)]

Vector3_add_assign(v, w) ==
    LET s1 == [v EXCEPT !.x = T_add_assign(v.x, w.x)]
        s2 == [s1 EXCEPT !.y = T_add_assign(s1.y, w.y)]
    IN  [s2 EXCEPT !.z = T_add_assign(s2.z, w.z)]

Vector3_sub(v, w) ==
    [x |-> T_sub(v.x, w.x), y |-> T_sub(v.y, w.y), z |-> T_sub(v.z, w.z)]

\* a variant of sub_assign whose last assignment is +=
Vector3_sub_assign_adds_z(v, w) ==
    LET s1 == [v EXCEPT !.x = T_sub_assign(v.x, w.x)]
        s2 == [s1 EXCEPT !.y = T_sub_assign(s1.y, w.y)]
    IN  [s2 EXCEPT !.z = T_add_assign(s2.z, w.z)]

Vector3_sub_assign(v, w) ==
    LET s1 == [v EXCEPT !.x = T_sub_assign(v.x, w.x)]
        s2 == [s1 EXCEPT !.y = T_sub_assign(s1.y, w.y)]
    IN  [s2 EXCEPT !.z = T_sub_assign(s2.z, w.z)]

Vector3_mul(v, s) ==
    [x |-> T_mul(v.x, s), y |-> T_mul(v.y, s), z |-> T_mul(v.z, s)]

Vector3_mul_assign(v, s) ==
    LET s1 == [v EXCEPT !.x = T_mul_assign(v.x, s)]
        s2 == [s1 EXCEPT !.y = T_mul_assign(s1.y, s)]
    IN  [s2 EXCEPT !.z = T_mul_assign(s2.z, s)]

---------------------------------------------------------------------------
(* src/src/vector4.rs *)

Vector4_new(x, y, z, w) == [x |-> x, y |-> y, z |-> z, w |-> w]

Vector4_from_array(v) == Vector4_new(v[1], v[2], v[3], v[4])

Vector4_from_Vector2(v) == Vector4_new(v.x, v.y, Default, Default)

\* a variant of From<Vector3<T>> that repeats z instead of padding
Vector4_from_Vector3_repeats_z(v) == Vector4_new(v.x, v.y, v.z, v.z)

Vector4_from_Vector3(v) == Vector4_new(v.x, v.y, v.z, Default)

\* a variant of dot that leaves out the w components
Vector4_dot_without_w(v, w) ==
    T_add(T_add(T_mul(v.x, w.x), T_mul(v.y, w.y)), T_mul(v.z, w.z))

Vector4_dot(v, w) ==
    T_add(T_add(T_add(T_mul(v.x, w.x), T_mul(v.y, w.y)), T_mul(v.z, w.z)),
          T_mul(v.w, w.w))

Vector4_add(v, w) ==
    [x |-> T_add(v.x, w.x), y |-> T_add(v.y, w.y),
     z |-> T_add(v.z, w.z), w |-> T_add(v.w, w.w)]

Vector4_add_assign(v, w) ==
    LET s1 == [v EXCEPT !.x = T_add_assign(v.x, w.x)]
        s2 == [s1 EXCEPT !.y = T_add_assign(s1.y, w.y)]
        s3 == [s2 EXCEPT !.z = T_add_assign(s2.z, w.z)]
    IN  [s3 EXCEPT !.w = T_add_assign(s3.w, w.w)]

Vector4_sub(v, w) ==
    [x |-> T_sub(v.x, w.x), y |-> T_sub(v.y, w.y),
     z |-> T_sub(v.z, w.z), w |-> T_sub(v.w, w.w)]

Vector4_sub_assign(v, w) ==
    LET s1 == [v EXCEPT !.x = T_sub_assign(v.x, w.x)]
        s2 == [s1 EXCEPT !.y = T_sub_assign(s1.y, w.y)]
        s3 == [s2 EXCEPT !.z = T_sub_assign(s2.z, w.z)]
    IN  [s3 EXCEPT !.w = T_sub_assign(s3.w, w.w)]

\* a variant of mul whose w component adds the scalar
Vector4_mul_adds_w(v, s) ==
    [x |-> T_mul(v.x, s), y |-> T_mul(v.y, s),
     z |-> T_mul(v.z, s), w |-> T_add(v.w, s)]

Vector4_mul(v, s) ==
    [x |-> T_mul(v.x, s), y |-> T_mul(v.y, s),
     z |-> T_mul(v.z, s), w |-> T_mul(v.w, s)]

Vector4_mul_assign(v, s) ==
    LET s1 == [v EXCEPT !.x = T_mul_assign(v.x, s)]
        s2 == [s1 EXCEPT !.y = T_mul_assign(s1.y, s)]
        s3 == [s2 EXCEPT !.z = T_mul_assign(s2.z, s)]
    IN  [s3 EXCEPT !.w = T_mul_assign(s3.w, s)]

---------------------------------------------------------------------------
(* Inputs *)

GridN == 16     \* the f32 inputs of the Vector2<f32> methods: n/4 for |n| <= GridN

Dim(v) == Cardinality(DOMAIN v)

\* scalars the operands of the generic operations are built from
IntIn == {MinT, -1, 0, 1, MaxT}
F32In == {0, FromRat(4, 3), -MaxK, NaN}
ScalarIn == IF ty = "f32" THEN F32In ELSE IntIn

Vec2In == {Vector2_new(a, b) : a \in ScalarIn, b \in ScalarIn}
Vec3In == {Vector3_new(a, b, c) : a \in ScalarIn, b \in ScalarIn, c \in ScalarIn}
Vec4In ==
    {Vector4_new(a, b, c, d) :
        a \in ScalarIn, b \in ScalarIn, c \in ScalarIn, d \in ScalarIn}

\* scalars the Vector2<f32> methods are applied to
GeoIn ==
    {FromRat(n, 4) : n \in -GridN..GridN} \cup {1, MaxK, -MaxK, Inf, NInf, NaN}
AngleIn == {FromRat(h, 2) : h \in -Len(SinMicro)..Len(SinMicro)} \cup {Inf, NaN}

NoVec == [x |-> 0, y |-> 0]

---------------------------------------------------------------------------
(* Specification Spec: the generic operations, T = "int" or "f32" *)

Init ==
    /\ ty \in {"int", "f32"}
    /\ self \in Vec2In \cup Vec3In \cup Vec4In
    /\ orig = self
    /\ op = "new"
    /\ rhs = NoVec
    /\ k = 0
    /\ out = NoVec
    /\ num = 0
    /\ path = <<>>

\* a conversion From<VectorM<T>> for VectorN<T>, applied to the receiver
Convert(m, n, v) ==
    /\ op \in {"new", "from"}
    /\ Dim(self) = m
    /\ Len(path) < MaxPath
    /\ self' = v
    /\ path' = Append(path, <<m, n>>)
    /\ op' = "from"
    /\ UNCHANGED <<ty, orig, rhs, k, out, num>>

\* a non-mutating operator with a vector operand w, returning the vector v
Binary(name, w, v) ==
    /\ rhs' = w
    /\ out' = v
    /\ op' = name
    /\ UNCHANGED <<ty, self, orig, k, num, path>>

\* a mutating operator with a vector operand w, leaving v in the receiver
BinaryAssign(name, w, v) ==
    /\ rhs' = w
    /\ self' = v
    /\ op' = name
    /\ UNCHANGED <<ty, orig, k, out, num, path>>

\* a non-mutating operator with a scalar operand s, returning the vector v
Scale(name, s, v) ==
    /\ k' = s
    /\ out' = v
    /\ op' = name
    /\ UNCHANGED <<ty, self, orig, rhs, num, path>>

\* a mutating operator with a scalar operand s, leaving v in the receiver
ScaleAssign(name, s, v) ==
    /\ k' = s
    /\ self' = v
    /\ op' = name
    /\ UNCHANGED <<ty, orig, rhs, out, num, path>>

\* a method with a vector operand w, returning the scalar n
BinaryNum(name, w, n) ==
    /\ rhs' = w
    /\ num' = n
    /\ op' = name
    /\ UNCHANGED <<ty, self, orig, k, out, path>>

Fresh(n) == op = "new" /\ Dim(self) = n

Do_Vector2_from_Vector3 ==
    Convert(3, 2, Vector2_from_Vector3(self))

Do_Vector2_from_Vector4 ==
    Convert(4, 2, Vector2_from_Vector4(self))

Do_Vector3_from_Vector2 ==
    Convert(2, 3, Vector3_from_Vector2(self))

Do_Vector3_from_Vector4 ==
    Convert(4, 3, Vector3_from_Vector4(self))

Do_Vector4_from_Vector2 ==
    Convert(2, 4, Vector4_from_Vector2(self))

Do_Vector4_from_Vector3 ==
    Convert(3, 4, Vector4_from_Vector3(self))

Do_Vector2_add ==
    /\ Fresh(2)
    /\ \E w \in Vec2In : Binary("add", w, Vector2_add(self, w))

Do_Vector2_add_assign ==
    /\ Fresh(2)
    /\ \E w \in Vec2In : BinaryAssign("add_assign", w, Vector2_add_assign(self, w))

Do_Vector2_sub ==
    /\ Fresh(2)
    /\ \E w \in Vec2In : Binary("sub", w, Vector2_sub(self, w))

Do_Vector2_sub_assign ==
    /\ Fresh(2)
    /\ \E w \in Vec2In : BinaryAssign("sub_assign", w, Vector2_sub_assign(self, w))

Do_Vector2_mul ==
    /\ Fresh(2)
    /\ \E s \in ScalarIn : Scale("mul", s, Vector2_mul(self, s))

Do_Vector2_mul_assign ==
    /\ Fresh(2)
    /\ \E s \in ScalarIn : ScaleAssign("mul_assign", s, Vector2_mul_assign(self, s))

Do_Vector3_add ==
    /\ Fresh(3)
    /\ \E w \in Vec3In : Binary("add", w, Vector3_add(self, w))

Do_Vector3_add_assign ==
    /\ Fresh(3)
    /\ \E w \in Vec3In : BinaryAssign("add_assign", w, Vector3_add_assign(self, w))

Do_Vector3_sub ==
    /\ Fresh(3)
    /\ \E w \in Vec3In : Binary("sub", w, Vector3_sub(self, w))

Do_Vector3_sub_assign ==
    /\ Fresh(3)
    /\ \E w \in Vec3In : BinaryAssign("sub_assign", w, Vector3_sub_assign(self, w))

Do_Vector3_mul ==
    /\ Fresh(3)
    /\ \E s \in ScalarIn : Scale("mul", s, Vector3_mul(self, s))

Do_Vector3_mul_assign ==
    /\ Fresh(3)
    /\ \E s \in ScalarIn : ScaleAssign("mul_assign", s, Vector3_mul_assign(self, s))

Do_Vector3_dot ==
    /\ Fresh(3)
    /\ \E w \in Vec3In : BinaryNum("dot", w, Vector3_dot(self, w))

Do_Vector3_cross ==
    /\ Fresh(3)
    /\ \E w \in Vec3In : Binary("cross", w, Vector3_cross(self, w))

Do_Vector4_add ==
    /\ Fresh(4)
    /\ \E w \in Vec4In : Binary("add", w, Vector4_add(self, w))

Do_Vector4_add_assign ==
    /\ Fresh(4)
    /\ \E w \in Vec4In : BinaryAssign("add_assign", w, Vector4_add_assign(self, w))

Do_Vector4_sub ==
    /\ Fresh(4)
    /\ \E w \in Vec4In : Binary("sub", w, Vector4_sub(self, w))

Do_Vector4_sub_assign ==
    /\ Fresh(4)
    /\ \E w \in Vec4In : BinaryAssign("sub_assign", w, Vector4_sub_assign(self, w))

Do_Vector4_mul ==
    /\ Fresh(4)
    /\ \E s \in ScalarIn : Scale("mul", s, Vector4_mul(self, s))

Do_Vector4_mul_assign ==
    /\ Fresh(4)
    /\ \E s \in ScalarIn : ScaleAssign("mul_assign", s, Vector4_mul_assign(self, s))

Do_Vector4_dot ==
    /\ Fresh(4)
    /\ \E w \in Vec4In : BinaryNum("dot", w, Vector4_dot(self, w))

Next ==
    \/ Do_Vector2_from_Vector3
    \/ Do_Vector2_from_Vector4
    \/ Do_Vector3_from_Vector2
    \/ Do_Vector3_from_Vector4
    \/ Do_Vector4_from_Vector2
    \/ Do_Vector4_from_Vector3
    \/ Do_Vector2_add
    \/ Do_Vector2_add_assign
    \/ Do_Vector2_sub
    \/ Do_Vector2_sub_assign
    \/ Do_Vector2_mul
    \/ Do_Vector2_mul_assign
    \/ Do_Vector3_add
    \/ Do_Vector3_add_assign
    \/ Do_Vector3_sub
    \/ Do_Vector3_sub_assign
    \/ Do_Vector3_mul
    \/ Do_Vector3_mul_assign
    \/ Do_Vector3_dot
    \/ Do_Vector3_cross
    \/ Do_Vector4_add
    \/ Do_Vector4_add_assign
    \/ Do_Vector4_sub
    \/ Do_Vector4_sub_assign
    \/ Do_Vector4_mul
    \/ Do_Vector4_mul_assign
    \/ Do_Vector4_dot

Spec == Init /\ [][Next]_vars

---------------------------------------------------------------------------
(* Specification SpecF32: the methods of impl Vector2<f32> *)

InitF32 ==
    /\ ty = "f32"
    /\ self \in {Vector2_new(a, b) : a \in GeoIn, b \in GeoIn}
    /\ orig = self
    /\ op = "new"
    /\ rhs = NoVec
    /\ k = 0
    /\ out = NoVec
    /\ num = 0
    /\ path = <<>>

Do_Vector2_magnitude ==
    /\ Fresh(2)
    /\ num' = Vector2_magnitude(self)
    /\ op' = "magnitude"
    /\ UNCHANGED <<ty, self, orig, rhs, k, out, path>>

Do_Vector2_clamp_mag ==
    /\ Fresh(2)
    /\ \E limit \in GeoIn :
          ScaleAssign("clamp_mag", limit, Vector2_clamp_mag(self, limit))

Do_Vector2_set_rotation ==
    /\ Fresh(2)
    /\ \E angle \in AngleIn :
          ScaleAssign("set_rotation", angle, Vector2_set_rotation(self, angle))

NextF32 ==
    \/ Do_Vector2_magnitude
    \/ Do_Vector2_clamp_mag
    \/ Do_Vector2_set_rotation

SpecF32 == InitF32 /\ [][NextF32]_vars

---------------------------------------------------------------------------
(* Vocabulary of the properties *)

Fields(n) == IF n = 2 THEN {"x", "y"}
             ELSE IF n = 3 THEN {"x", "y", "z"}
             ELSE {"x", "y", "z", "w"}

\* the vector of dimension n with every component T::default()
ZeroVec(n) == [f \in Fields(n) |-> Default]

\* the operators of the type of v
AddOf(v, w) == IF Dim(v) = 2 THEN Vector2_add(v, w)
               ELSE IF Dim(v) = 3 THEN Vector3_add(v, w)
               ELSE Vector4_add(v, w)

SubOf(v, w) == IF Dim(v) = 2 THEN Vector2_sub(v, w)
               ELSE IF Dim(v) = 3 THEN Vector3_sub(v, w)
               ELSE Vector4_sub(v, w)

MulOf(v, s) == IF Dim(v) = 2 THEN Vector2_mul(v, s)
               ELSE IF Dim(v) = 3 THEN Vector3_mul(v, s)
               ELSE Vector4_mul(v, s)

DotOf(v, w) == IF Dim(v) = 3 THEN Vector3_dot(v, w) ELSE Vector4_dot(v, w)

\* the direct conversion of v to dimension n
Direct(v, n) ==
    IF Dim(v) = n THEN v
    ELSE IF n = 2 THEN (IF Dim(v) = 3 THEN Vector2_from_Vector3(v)
                        ELSE Vector2_from_Vector4(v))
    ELSE IF n = 3 THEN (IF Dim(v) = 2 THEN Vector3_from_Vector2(v)
                        ELSE Vector3_from_Vector4(v))
    ELSE (IF Dim(v) = 2 THEN Vector4_from_Vector2(v)
          ELSE Vector4_from_Vector3(v))

\* the dimensions a chain of conversions passes through after its start
Via == {path[i][2] : i \in 1..Len(path)}

\* the negation of a scalar of the instantiation ty
NegOf(a) == IF ty = "f32" THEN FNeg(a) ELSE Wrap(-a)

---------------------------------------------------------------------------
(* C2 *)

\* C2: widening a vector and narrowing it back is the identity: after any
\* chain of conversions that returns to the dimension it started from and
\* never passes through a lower one (2->3->2, 2->4->2, 3->4->3, 2->3->4->2,
\* ...), the vector equals the original, component for component.
C2_WidenThenNarrow ==
    (op = "from" /\ Dim(self) = Dim(orig) /\ \A n \in Via : n >= Dim(orig))
        => self = orig

C2_Witness ==
    /\ path = << <<2, 4>>, <<4, 2>> >>
    /\ ty = "int"
    /\ orig = Vector2_new(MinT, 1)
    /\ self = orig

---------------------------------------------------------------------------
(* C3 *)

\* C3: a widening conversion copies every component into the field of the
\* same name and sets each new trailing component to T::default() (zero); a
\* narrowing conversion keeps the leading components and drops the rest; so
\* narrowing then widening keeps the preserved components and leaves zero in
\* the re-introduced ones.
C3_PadAndTruncate ==
    /\ Len(path) = 1 =>
          /\ DOMAIN self = Fields(path[1][2])
          /\ \A f \in DOMAIN self :
                self[f] = IF f \in DOMAIN orig THEN orig[f] ELSE 0
    /\ (Len(path) = 2 /\ path[1][2] < Dim(orig) /\ path[2][2] > path[1][2]) =>
          /\ DOMAIN self = Fields(path[2][2])
          /\ \A f \in DOMAIN self :
                self[f] = IF f \in Fields(path[1][2]) THEN orig[f] ELSE 0

C3_Witness ==
    /\ path = << <<4, 2>>, <<2, 4>> >>
    /\ ty = "int"
    /\ orig = Vector4_new(1, -1, MaxT, MinT)
    /\ self = Vector4_new(1, -1, 0, 0)

---------------------------------------------------------------------------
(* C10 *)

\* C10: conversions are path-independent: a chain of two or more conversions
\* that never passes through a dimension lower than both its start and its
\* end yields the same vector as the direct conversion (2->3->4 as 2->4,
\* 4->3->2 as 4->2).
C10_PathIndependent ==
    (/\ Len(path) >= 2
     /\ \A n \in Via : n >= Dim(orig) \/ n >= Dim(self))
        => self = Direct(orig, Dim(self))

C10_Witness ==
    /\ path = << <<2, 3>>, <<3, 4>> >>
    /\ ty = "int"
    /\ orig = Vector2_new(MaxT, -1)
    /\ self = Vector4_new(MaxT, -1, 0, 0)

---------------------------------------------------------------------------
(* C4 *)

\* C4: the in-place operators agree with the operators that return a new
\* vector, for Vector2, Vector3 and Vector4: starting from a copy of v,
\* after += w the receiver is v + w, after -= w it is v - w, and after *= s it
\* is v * s, component for component; the operand and the original v (orig)
\* are as they were.
C4_InPlaceEquivalent ==
    /\ op = "add_assign" => self = AddOf(orig, rhs)
    /\ op = "sub_assign" => self = SubOf(orig, rhs)
    /\ op = "mul_assign" => self = MulOf(orig, k)
    /\ op \in {"add_assign", "sub_assign", "mul_assign"} =>
          DOMAIN self = DOMAIN orig

C4_Witness ==
    /\ op = "sub_assign"
    /\ ty = "int"
    /\ orig = Vector4_new(MinT, 0, 1, MaxT)
    /\ rhs = Vector4_new(1, 1, MinT, -1)
    /\ self = Vector4_new(MaxT, -1, MinT + 1, MinT)

---------------------------------------------------------------------------
(* C5 *)

\* C5: for integer scalars, scalar multiplication distributes over vector
\* addition, also where the arithmetic wraps: with out = v1 + v2 as the
\* addition returned it, out * s = v1 * s + v2 * s for every scalar s.
C5_Distributive ==
    (ty = "int" /\ op = "add") =>
        \A s \in ScalarIn :
            MulOf(out, s) = AddOf(MulOf(self, s), MulOf(rhs, s))

C5_Witness ==
    /\ op = "add"
    /\ ty = "int"
    /\ self = Vector4_new(MaxT, MaxT, MinT, 1)
    /\ rhs = Vector4_new(1, MaxT, MinT, -1)
    /\ out = Vector4_new(MinT, -2, 0, 0)
    /\ MulOf(out, MaxT) = Vector4_new(MinT, 2, 0, 0)

---------------------------------------------------------------------------
(* C7 *)

\* the sum of the products of the components, as an integer
SumOfProducts(v, w) ==
    (v.x * w.x) + (v.y * w.y) + (v.z * w.z)
        + (IF Dim(v) = 4 THEN v.w * w.w ELSE 0)

\* C7: the dot product of Vector3 and of Vector4 is symmetric, a.dot(b) =
\* b.dot(a), and is the sum of the products of the components over all
\* three (four) of them: (1,2,3).(4,5,6) = 32, (1,2,3,4).(5,6,7,8) = 70.
C7_DotSymmetric ==
    /\ op = "dot" => num = DotOf(rhs, self)
    /\ (op = "dot" /\ ty = "int") => num = Wrap(SumOfProducts(self, rhs))
    /\ ty = "int" =>
          /\ Vector3_dot(Vector3_new(1, 2, 3), Vector3_new(4, 5, 6)) = 32
          /\ Vector4_dot(Vector4_new(1, 2, 3, 4), Vector4_new(5, 6, 7, 8)) = 70

C7_Witness ==
    /\ op = "dot"
    /\ ty = "int"
    /\ self = Vector4_new(1, -1, MaxT, MinT)
    /\ rhs = Vector4_new(MaxT, 1, MaxT, 0)
    /\ num = Wrap(MaxT - 1 + (MaxT * MaxT))

---------------------------------------------------------------------------
(* C9 *)

\* C9: for integer scalars and all three vector types, the zero vector is
\* the additive identity and every vector is its own additive inverse:
\* v + 0 = v and v - v = 0, also where the arithmetic wraps.  (v + 0 = v is
\* checked for "f32" too.)
C9_IdentityAndInverse ==
    /\ (op = "add" /\ rhs = ZeroVec(Dim(self))) => out = self
    /\ (op = "sub" /\ rhs = self /\ ty = "int") => out = ZeroVec(Dim(self))

C9_Witness ==
    /\ op = "sub"
    /\ ty = "int"
    /\ self = Vector3_new(MinT, MaxT, -1)
    /\ rhs = self
    /\ out = Vector3_new(0, 0, 0)

---------------------------------------------------------------------------
(* C6 *)

NegVec3(v) == [x |-> NegOf(v.x), y |-> NegOf(v.y), z |-> NegOf(v.z)]

\* every product cross(v, v) subtracts is a finite number (always, for "int")
ProductsFinite(v) ==
    ty = "f32" =>
        /\ IsFinite(FMul(v.y, v.z))
        /\ IsFinite(FMul(v.z, v.x))
        /\ IsFinite(FMul(v.x, v.y))

\* C6 as claimed: for all a and b, a.cross(b) is the component-wise negation
\* of b.cross(a), a.cross(a) is the zero vector, and
\* (1,2,3) x (4,5,6) = (-3,6,-3).
C6_CrossAsClaimed ==
    /\ op = "cross" => out = NegVec3(Vector3_cross(rhs, self))
    /\ (op = "cross" /\ rhs = self) => out = ZeroVec(3)
    /\ ty = "int" =>
          Vector3_cross(Vector3_new(1, 2, 3), Vector3_new(4, 5, 6))
              = Vector3_new(-3, 6, -3)

\* C6, amended: a.cross(b) is the right-handed cross product and is the
\* component-wise negation of b.cross(a) for all a and b;
\* (1,2,3) x (4,5,6) = (-3,6,-3); a.cross(a) is the zero vector for integer
\* scalars, and for floating-point scalars when the products of a's
\* components are finite (when one overflows, or a component is infinite or
\* NaN, a.cross(a) has NaN components).
C6_CrossAntiCommutative ==
    /\ op = "cross" => out = NegVec3(Vector3_cross(rhs, self))
    /\ (op = "cross" /\ rhs = self /\ ProductsFinite(self)) => out = ZeroVec(3)
    /\ (op = "cross" /\ rhs = self /\ ~ProductsFinite(self)) =>
          NaN \in {out.x, out.y, out.z}
    /\ (op = "cross" /\ ty = "int") =>
          /\ out.x = Wrap((self.y * rhs.z) - (self.z * rhs.y))
          /\ out.y = Wrap((self.z * rhs.x) - (self.x * rhs.z))
          /\ out.z = Wrap((self.x * rhs.y) - (self.y * rhs.x))
    /\ ty = "int" =>
          Vector3_cross(Vector3_new(1, 2, 3), Vector3_new(4, 5, 6))
              = Vector3_new(-3, 6, -3)

C6_Witness ==
    /\ op = "cross"
    /\ ty = "int"
    /\ self = Vector3_new(MinT, MaxT, -1)
    /\ rhs = Vector3_new(1, MaxT, MinT)
    /\ out = Vector3_new(Wrap((MaxT * MinT) + MaxT), Wrap(-1 - (MinT * MinT)),
                         Wrap((MinT * MaxT) - MaxT))
    /\ out # ZeroVec(3)
    /\ Vector3_cross(rhs, self) = NegVec3(out)

\* a.cross(a) = 0 in floating point, where every product is finite
C6_WitnessF32 ==
    /\ op = "cross"
    /\ ty = "f32"
    /\ self = Vector3_new(FromRat(4, 3), 0, FromRat(4, 3))
    /\ rhs = self
    /\ out = ZeroVec(3)

---------------------------------------------------------------------------
(* C1 *)

\* C1: set_rotation(angle) leaves x' = x*c - y*s and y' = x*s + y*c in the
\* receiver, with c = cos(angle), s = sin(angle), both computed from the x
\* and y the receiver held before the call.  (Stated for finite vectors and
\* angles, where no infinity or NaN enters the comparison.)
C1_RotationFromOriginal ==
    (op = "set_rotation" /\ IsFinite(orig.x) /\ IsFinite(orig.y) /\ IsFinite(k)) =>
        LET c == Cos(k)
            s == Sin(k)
        IN  /\ self.x = FSub(FMul(orig.x, c), FMul(orig.y, s))
            /\ self.y = FAdd(FMul(orig.x, s), FMul(orig.y, c))

---------------------------------------------------------------------------
(* C8 *)

\* the smallest normal number, in units
MinNormal == 2 ^ (Prec - 1)

\* a result that is finite and not in the subnormal range
Normal(a) == IsFinite(a) /\ Abs(a) >= MinNormal

\* the product a * b neither overflows nor underflows
MulExactOrNormal(a, b) == a = 0 \/ b = 0 \/ Normal(FMul(a, b))

\* the factor clamp_mag scales by when it scales
ClampFactor(v, limit) == FMul(FRecip(Vector2_magnitude(v)), limit)

\* no step of magnitude() on v overflows or underflows
MagnitudeInRange(v) ==
    /\ MulExactOrNormal(v.x, v.x)
    /\ MulExactOrNormal(v.y, v.y)
    /\ Normal(FAdd(FPowi2(v.x), FPowi2(v.y)))

\* no step of clamp_mag(limit) on v, nor of magnitude() on its result,
\* overflows or underflows
ClampInRange(v, limit) ==
    LET f == ClampFactor(v, limit)
    IN  /\ IsFinite(limit)
        /\ MagnitudeInRange(v)
        /\ Normal(FRecip(Vector2_magnitude(v)))
        /\ Normal(f)
        /\ MulExactOrNormal(v.x, f)
        /\ MulExactOrNormal(v.y, f)
        /\ MagnitudeInRange([x |-> FMul(v.x, f), y |-> FMul(v.y, f)])

\* C8 as claimed: for every vector and every limit, if the magnitude exceeds
\* limit the vector is rescaled by one positive factor so that its magnitude
\* is exactly limit; otherwise both components are unchanged.  (Stated for
\* finite limits and for vectors whose magnitude is computed without
\* overflow or underflow.)
C8_ClampAsClaimed ==
    (op = "clamp_mag" /\ IsFinite(k) /\ MagnitudeInRange(orig)) =>
        IF FGt(Vector2_magnitude(orig), k)
        THEN LET f == ClampFactor(orig, k)
             IN  /\ IsFinite(f) /\ f > 0
                 /\ self = [x |-> FMul(orig.x, f), y |-> FMul(orig.y, f)]
                 /\ Vector2_magnitude(self) = k
        ELSE self = orig

\* C8, amended: clamp_mag(limit) is in-place.  With mag = magnitude() as f32
\* computes it: if mag > limit, both components are multiplied by the same
\* factor (1/mag) * limit; otherwise (also when mag or limit is NaN) both are
\* unchanged.  For a limit > 0 and no overflow or underflow on the way, the
\* factor is positive, so the direction is unchanged, and the magnitude
\* becomes limit up to rounding: within 8 * 2^-p of it, relatively, for a
\* p-bit significand, and exactly 2.5 for (3,4) and limit 2.5.  For a limit
\* of 0 a finite vector becomes the zero vector; for a limit < 0 the factor
\* is not positive (the vector is reversed).
C8_ClampMag ==
    op = "clamp_mag" =>
        LET mag == Vector2_magnitude(orig)
            f == ClampFactor(orig, k)
            m2 == Vector2_magnitude(self)
        IN  /\ ~FGt(mag, k) => self = orig
            /\ FGt(mag, k) =>
                  self = [x |-> FMul(orig.x, f), y |-> FMul(orig.y, f)]
            /\ (FGt(mag, k) /\ k > 0 /\ ClampInRange(orig, k)) =>
                  /\ f > 0
                  /\ self.x * orig.x >= 0 /\ self.y * orig.y >= 0
                  /\ Abs(m2 - k) * (2 ^ Prec) <= 8 * k
            /\ (FGt(mag, k) /\ k = 0 /\ IsFinite(orig.x) /\ IsFinite(orig.y)
                    /\ IsFinite(mag)) =>
                  self = ZeroVec(2)
            /\ (FGt(mag, k) /\ k < 0 /\ IsFinite(mag)) => f <= 0
            /\ (orig = Vector2_new(FromRat(3, 1), FromRat(4, 1))
                    /\ k = FromRat(5, 2)) =>
                  /\ self = Vector2_new(FromRat(3, 2), FromRat(2, 1))
                  /\ m2 = k

C8_Witness ==
    /\ op = "clamp_mag"
    /\ orig = Vector2_new(FromRat(3, 1), FromRat(4, 1))
    /\ k = FromRat(5, 2)
    /\ self = Vector2_new(FromRat(3, 2), FromRat(2, 1))
    /\ ClampInRange(orig, k)

====
